---- MODULE Spec2Model ----
(***************************************************************************)
(* Model of water_watcher.py: WaterDetector.check_water and                *)
(* WaterDetector.monitor, with the collaborators they call                 *)
(* (LevitonController.set_plug, TelegramNotifier.send_message,             *)
(* Database.log_event, RPi.GPIO, datetime.now, time.sleep).                *)
(*                                                                         *)
(* Time is in whole seconds since a midnight.  datetime.now() is the       *)
(* variable clock; it is read at line 255 (current_time) and again at      *)
(* line 218 (should_notify), and it advances while check_water sleeps and  *)
(* while monitor sleeps.  None is NoTime for the optional timestamps.      *)
(* The detector is built as in __main__ (lines 352-360): a controller and  *)
(* a database are present; the notifier is optional (telegram).            *)
(* GPIO.output(pin, LOW) is taken to succeed; GPIO.output(pin, HIGH) and   *)
(* GPIO.input may raise.  A raising GPIO.output(pin, HIGH) leaves the pin  *)
(* as it was.  The pin is LOW when the detector is constructed.            *)
(***************************************************************************)
EXTENDS Integers, Sequences, FiniteSets, TLC

\* ---------------------------------------------------------------- bounds
MaxIter == 3
MaxLatency == 1

\* ------------------------------------------------------ program constants
NumReads == 5
TriggerHour == 7
TriggerMinute == 0
CooldownHours == 6
DefaultInterval == 1
MainInterval == 120

NoTime == 0 - 1

notification_cooldown == CooldownHours * 3600

\* check_interval values explored: the default of monitor (line 246), the
\* value passed by __main__ (line 363), and one as long as the cooldown.
CheckIntervals == {DefaultInterval, MainInterval, notification_cooldown}

\* wall-clock readings at which monitor is started: 06:59:59, 07:00:00,
\* 07:00:59
StartTimes == {25199, 25200, 25259}

VARIABLES
    telegram,                \* self.telegram is not None
    check_interval,          \* argument of monitor
    clock,                   \* datetime.now()
    iter,                    \* number of iterations started
    pc,                      \* position in monitor / check_water
    outcome,                 \* how monitor ends: "none", "return", "raise", "interrupt"
    power,                   \* level of the sensor power pin
    readings,                \* local of check_water
    current_time,            \* local of monitor
    current_state,           \* local of monitor
    state_changed,           \* local of monitor
    emojiBound,              \* the local emoji of monitor has been assigned
    access_token,            \* LevitonController.access_token is set
    last_state,
    last_reading_time,
    last_notification_time,
    obs,                     \* what the collaborators saw in the current iteration
    hist                     \* what the collaborators saw in earlier iterations

vars == <<telegram, check_interval, clock, iter, pc, outcome, power, readings,
          current_time, current_state, state_changed, emojiBound, access_token,
          last_state, last_reading_time, last_notification_time, obs, hist>>

cfg == <<telegram, check_interval>>
det == <<last_state, last_reading_time, last_notification_time>>
locals == <<current_time, current_state, state_changed>>

\* ------------------------------------------------------------- helpers

\* datetime.hour and datetime.minute of a time in seconds since a midnight
Hour(t) == (t \div 3600) % 24
Minute(t) == (t \div 60) % 60

RECURSIVE Sum(_)
Sum(s) == IF s = <<>> THEN 0 ELSE Head(s) + Sum(Tail(s))

\* line 235: sum(readings) > len(readings) / 2   (true division)
MajorityFloor(rs) == Sum(rs) >= (Len(rs) \div 2)
Majority(rs) == 2 * Sum(rs) > Len(rs)

\* line 260: the actuation condition
ShouldActuateAnyMinute(t, wet) == Hour(t) = TriggerHour /\ wet
ShouldActuate(t, wet) == Hour(t) = TriggerHour /\ Minute(t) = TriggerMinute /\ wet

\* lines 214-218: should_notify, now being datetime.now() at the call
should_notify(now, lnt) ==
    IF lnt = NoTime THEN TRUE ELSE now - lnt > notification_cooldown

\* outcomes of LevitonController.set_plug (lines 68-87): <<token after, raised>>
\* login (lines 26-38) runs when there is no token; login and put may raise
set_plug(token) ==
    IF token
    THEN {<<TRUE, FALSE>>, <<TRUE, TRUE>>}
    ELSE {<<FALSE, TRUE>>, <<TRUE, FALSE>>, <<TRUE, TRUE>>}

\* TelegramNotifier.send_message (lines 141-150): True, or False on any error
send_message == {"ok", "fail"}

\* Database.log_event (lines 113-124): inserts, or logs the error and returns
log_event == {"ok", "fail"}

FreshObs == [plug |-> "none", actSent |-> "none", logged |-> "none",
             sent |-> "none", note |-> NoTime, differs |-> FALSE,
             first |-> FALSE, sampled |-> FALSE,
             cwErr |-> 0, stopSent |-> 0, monErr |-> 0, hotExit |-> FALSE,
             sensorFailed |-> FALSE, intr |-> "none",
             det0 |-> <<FALSE, NoTime, NoTime>>]

FreshHist == [plugMinute |-> NoTime, plugCount |-> 0,
              prevStatusAt |-> NoTime, lastStatusAt |-> NoTime,
              allWet |-> TRUE, prevSample |-> FALSE, prevDone |-> FALSE,
              prevLogAt |-> NoTime, lastLogAt |-> NoTime,
              firstCaptured |-> NoTime]

\* ----------------------------------------------------------------- Init
\* WaterDetector.__init__ (lines 154-206) followed by the call of monitor
Init ==
    /\ telegram \in BOOLEAN
    /\ check_interval \in CheckIntervals
    /\ clock \in StartTimes
    /\ iter = 0
    /\ pc = "loop"
    /\ outcome = "none"
    /\ power = "LOW"
    /\ readings = <<>>
    /\ current_time = NoTime
    /\ current_state = FALSE
    /\ state_changed = FALSE
    /\ emojiBound = FALSE
    /\ access_token = FALSE
    /\ last_state = FALSE
    /\ last_reading_time = NoTime
    /\ last_notification_time = NoTime
    /\ obs = FreshObs
    /\ hist = FreshHist

\* ---------------------------------------------------------- check_water

\* line 255 and the call at line 256
Loop ==
    /\ pc = "loop"
    /\ iter < MaxIter
    /\ iter' = iter + 1
    /\ current_time' = clock
    /\ pc' = "cw_energize"
    /\ obs' = [FreshObs EXCEPT !.det0 = det]
    /\ hist' = [hist EXCEPT !.firstCaptured =
                     IF iter = 0 THEN clock ELSE hist.firstCaptured]
    /\ UNCHANGED <<cfg, clock, outcome, power, readings, current_state,
                   state_changed, emojiBound, access_token, det>>

\* line 223: GPIO.output(power_pin, HIGH), which may raise
Energize ==
    /\ pc = "cw_energize"
    /\ \/ power' = "HIGH" /\ pc' = "cw_settle" /\ obs' = obs
       \/ /\ power' = power /\ pc' = "cw_except"
          /\ obs' = [obs EXCEPT !.sensorFailed = TRUE]
    /\ UNCHANGED <<cfg, clock, iter, outcome, readings, locals, emojiBound,
                   access_token, det, hist>>

\* line 224: time.sleep(0.1); the clock moves on
Settle ==
    /\ pc = "cw_settle"
    /\ \E d \in 0..MaxLatency : clock' = clock + d
    /\ readings' = <<>>
    /\ pc' = "cw_read"
    /\ UNCHANGED <<cfg, iter, outcome, power, locals, emojiBound,
                   access_token, det, obs, hist>>

\* lines 227-231: one pass of the read loop; GPIO.input gives 0 or 1 or raises
Read ==
    /\ pc = "cw_read"
    /\ Len(readings) < NumReads
    /\ \/ /\ \E r \in {0, 1} : readings' = Append(readings, r)
          /\ pc' = pc /\ obs' = obs
       \/ /\ readings' = readings /\ pc' = "cw_except"
          /\ obs' = [obs EXCEPT !.sensorFailed = TRUE]
    /\ UNCHANGED <<cfg, clock, iter, outcome, power, locals, emojiBound,
                   access_token, det, hist>>

\* line 233: GPIO.output(power_pin, LOW) after the last read
DeEnergize == power' = "LOW"

\* lines 233-237: de-energize, vote, return to monitor (line 256 assigns)
Result ==
    /\ pc = "cw_read"
    /\ Len(readings) = NumReads
    /\ DeEnergize
    /\ current_state' = Majority(readings)
    /\ obs' = [obs EXCEPT !.sampled = TRUE,
                          !.differs = (Majority(readings) # last_state),
                          !.first = (last_reading_time = NoTime)]
    /\ hist' = [hist EXCEPT !.allWet = hist.allWet /\ Majority(readings)]
    /\ pc' = "actuate"
    /\ UNCHANGED <<cfg, clock, iter, outcome, readings, current_time,
                   state_changed, emojiBound, access_token, det>>

\* lines 239-241: the handler of check_water de-energizes
ExceptLow == power' = "LOW"

Except ==
    /\ pc = "cw_except"
    /\ ExceptLow
    /\ readings' = <<>>
    /\ pc' = "cw_except_notify"
    /\ UNCHANGED <<cfg, clock, iter, outcome, locals, emojiBound,
                   access_token, det, obs, hist>>

\* lines 242-244: best-effort report, then re-raise into monitor's
\* except Exception clause
ExceptNotify ==
    /\ pc = "cw_except_notify"
    /\ obs' = [obs EXCEPT !.cwErr = obs.cwErr + IF telegram THEN 1 ELSE 0]
    /\ pc' = "mon_except"
    /\ UNCHANGED <<cfg, clock, iter, outcome, power, readings, locals,
                   emojiBound, access_token, det, hist>>

\* ------------------------------------------------------------- monitor

\* lines 260-261: the actuation test and the call of set_plug("ON"); a
\* raising set_plug leaves the loop for monitor's except Exception clause
Actuate ==
    /\ pc = "actuate"
    /\ readings' = <<>>
    /\ IF ShouldActuate(current_time, current_state)
       THEN \E res \in set_plug(access_token) :
              /\ access_token' = res[1]
              /\ obs' = [obs EXCEPT !.plug = IF res[2] THEN "fail" ELSE "ok"]
              /\ hist' = [hist EXCEPT
                    !.plugMinute = current_time \div 60,
                    !.plugCount = IF hist.plugMinute = current_time \div 60
                                  THEN hist.plugCount + 1 ELSE 1]
              /\ pc' = IF res[2] THEN "mon_except" ELSE "actuate_notify"
       ELSE /\ pc' = "evaluate"
            /\ UNCHANGED <<access_token, obs, hist>>
    /\ UNCHANGED <<cfg, clock, iter, outcome, power, locals, emojiBound, det>>

\* lines 263-274 assign none of the detector's three state fields
ActuateStamp ==
    /\ last_notification_time' = current_time
    /\ UNCHANGED <<last_state, last_reading_time>>
ActuateFrame == UNCHANGED det

\* lines 263-274: the notification of the automated action; the message is
\* built from the local emoji, which is assigned only at line 304
ActuateNotify ==
    /\ pc = "actuate_notify"
    /\ IF telegram
       THEN IF emojiBound
            THEN \E r \in send_message :
                   /\ obs' = [obs EXCEPT !.actSent = r]
                   /\ pc' = "evaluate"
            ELSE /\ obs' = [obs EXCEPT !.actSent = "unbound"]
                 /\ pc' = "mon_except"
       ELSE /\ pc' = "evaluate"
            /\ obs' = obs
    /\ ActuateFrame
    /\ UNCHANGED <<cfg, clock, iter, outcome, power, readings, locals,
                   emojiBound, access_token, hist>>

\* lines 277-284
Evaluate ==
    /\ pc = "evaluate"
    /\ IF last_reading_time = NoTime
       THEN /\ last_reading_time' = current_time
            /\ last_state' = current_state
            /\ state_changed' = TRUE
       ELSE /\ state_changed' = (current_state # last_state)
            /\ UNCHANGED <<last_reading_time, last_state>>
    /\ pc' = "decide"
    /\ UNCHANGED <<cfg, clock, iter, outcome, power, readings, current_time,
                   current_state, emojiBound, access_token,
                   last_notification_time, obs, hist>>

\* line 286
Decide ==
    /\ pc = "decide"
    /\ pc' = IF state_changed \/ should_notify(clock, last_notification_time)
             THEN "log" ELSE "sleep"
    /\ UNCHANGED <<cfg, clock, iter, outcome, power, readings, locals,
                   emojiBound, access_token, det, obs, hist>>

\* line 292: time_since_last_reading
ElapsedFromNow(ct, lrt) == clock - lrt
time_since_last_reading(ct, lrt) == ct - lrt

\* lines 287-300: the event and its elapsed-time annotation
Log ==
    /\ pc = "log"
    /\ \E r \in log_event :
         obs' = [obs EXCEPT !.logged = r,
                    !.note = time_since_last_reading(current_time,
                                                     last_reading_time)]
    /\ hist' = [hist EXCEPT !.prevLogAt = hist.lastLogAt,
                            !.lastLogAt = current_time]
    /\ pc' = "notify"
    /\ UNCHANGED <<cfg, clock, iter, outcome, power, readings, locals,
                   emojiBound, access_token, det>>

\* line 313: the assignment after send_message
Stamp(r) == last_notification_time' = current_time

\* lines 303-313: the status notification
Notify ==
    /\ pc = "notify"
    /\ IF telegram
       THEN /\ emojiBound' = TRUE
            /\ \E r \in send_message :
                 /\ obs' = [obs EXCEPT !.sent = r]
                 /\ Stamp(r)
            /\ hist' = [hist EXCEPT !.prevStatusAt = hist.lastStatusAt,
                                    !.lastStatusAt = current_time]
       ELSE UNCHANGED <<emojiBound, obs, last_notification_time, hist>>
    /\ pc' = "commit"
    /\ UNCHANGED <<cfg, clock, iter, outcome, power, readings, locals,
                   access_token, last_state, last_reading_time>>

\* line 315
KeepLastState == last_state' = last_state
SetLastState == last_state' = current_state

\* lines 315-316
Commit ==
    /\ pc = "commit"
    /\ SetLastState
    /\ last_reading_time' = current_time
    /\ pc' = "sleep"
    /\ UNCHANGED <<cfg, clock, iter, outcome, power, readings, locals,
                   emojiBound, access_token, last_notification_time, obs, hist>>

\* line 318: time.sleep(check_interval)
Sleep ==
    /\ pc = "sleep"
    /\ clock' = clock + check_interval
    /\ hist' = [hist EXCEPT !.prevSample = current_state, !.prevDone = TRUE]
    /\ pc' = "loop"
    /\ UNCHANGED <<cfg, iter, outcome, power, readings, locals, emojiBound,
                   access_token, det, obs>>

\* positions inside the try block of monitor (lines 253-318), check_water
\* and its handler included
InTry == {"loop", "cw_energize", "cw_settle", "cw_read", "cw_except",
          "cw_except_notify", "actuate", "actuate_notify", "evaluate",
          "decide", "log", "notify", "commit", "sleep"}

\* positions inside check_water (lines 220-244)
InCheckWater == {"cw_energize", "cw_settle", "cw_read", "cw_except",
                 "cw_except_notify"}

\* KeyboardInterrupt raised inside the try block: it is not an Exception, so
\* the handler of check_water (line 239) does not run; control goes to
\* line 320
Interrupt ==
    /\ pc \in InTry
    /\ pc' = "kbd"
    /\ readings' = <<>>
    /\ obs' = [obs EXCEPT !.hotExit = (power = "HIGH"), !.intr = "try"]
    /\ UNCHANGED <<cfg, clock, iter, outcome, power, locals, emojiBound,
                   access_token, det, hist>>

\* lines 320-323 end without a raise: monitor returns normally
KbdPropagate == outcome' = "interrupt"
KbdReturn == outcome' = "return"

\* lines 320-323
Kbd ==
    /\ pc = "kbd"
    /\ obs' = [obs EXCEPT !.stopSent = obs.stopSent + IF telegram THEN 1 ELSE 0]
    /\ KbdReturn
    /\ pc' = "finally"
    /\ UNCHANGED <<cfg, clock, iter, power, readings, locals, emojiBound,
                   access_token, det, hist>>

\* line 328: raise
Swallow == outcome' = "return"
Reraise == outcome' = "raise"

\* lines 324-328
MonExcept ==
    /\ pc = "mon_except"
    /\ obs' = [obs EXCEPT !.monErr = obs.monErr + IF telegram THEN 1 ELSE 0]
    /\ Reraise
    /\ pc' = "finally"
    /\ UNCHANGED <<cfg, clock, iter, power, readings, locals, emojiBound,
                   access_token, det, hist>>

\* KeyboardInterrupt raised inside one of the two except clauses of monitor:
\* no clause catches it, the finally clause runs and it propagates
HandlerInterrupt ==
    /\ pc \in {"kbd", "mon_except"}
    /\ outcome' = "interrupt"
    /\ obs' = [obs EXCEPT !.intr = "handler"]
    /\ pc' = "finally"
    /\ UNCHANGED <<cfg, clock, iter, power, readings, locals, emojiBound,
                   access_token, det, hist>>

\* line 330: GPIO.output(power_pin, LOW)
FinallyKeep == power' = power
FinallyLow == power' = "LOW"

\* lines 329-331
Finally ==
    /\ pc = "finally"
    /\ FinallyLow
    /\ pc' = "done"
    /\ UNCHANGED <<cfg, clock, iter, outcome, readings, locals, emojiBound,
                   access_token, det, obs, hist>>

Next ==
    \/ Loop \/ Energize \/ Settle \/ Read \/ Result \/ Except \/ ExceptNotify
    \/ Actuate \/ ActuateNotify \/ Evaluate \/ Decide \/ Log \/ Notify
    \/ Commit \/ Sleep \/ Interrupt \/ Kbd \/ MonExcept \/ HandlerInterrupt
    \/ Finally

Spec == Init /\ [][Next]_vars

TypeOK ==
    /\ telegram \in BOOLEAN
    /\ check_interval \in CheckIntervals
    /\ clock \in Nat
    /\ iter \in 0..MaxIter
    /\ pc \in InTry \cup {"kbd", "mon_except", "finally", "done"}
    /\ outcome \in {"none", "return", "raise", "interrupt"}
    /\ power \in {"LOW", "HIGH"}
    /\ readings \in Seq({0, 1}) /\ Len(readings) <= NumReads
    /\ current_state \in BOOLEAN /\ state_changed \in BOOLEAN
    /\ emojiBound \in BOOLEAN /\ access_token \in BOOLEAN
    /\ last_state \in BOOLEAN

\* ------------------------------------------------------------- claims

\* positions of an iteration after the actuation test of line 260 has run
PastActuate == {"actuate_notify", "evaluate", "decide", "log", "notify",
                "commit", "sleep"}

\* t lies in the calendar minute 07:00 / 07:01 of some day
InTriggerMinute(t) == (t % 86400) \div 60 = 420
InNextMinute(t) == (t % 86400) \div 60 = 421

Ones(rs) == Cardinality({i \in 1..Len(rs) : rs[i] = 1})

\* C1: the sensor power line is LOW whenever check_water is not in
\* progress, in particular at the moment check_water has returned or raised.
C1_PowerLowOutsideCheckWater ==
    pc \notin InCheckWater => power = "LOW"

\* C2: when monitor has terminated, however it terminated, the sensor power
\* line is LOW.
C2_PowerLowWhenMonitorEnds ==
    pc = "done" => power = "LOW"

\* monitor has ended after an interrupt that arrived in the middle of
\* check_water, while the power line was HIGH
C2_Witness ==
    pc = "done" /\ obs.hotExit /\ outcome = "return"

\* C3: in an iteration, set_plug("ON") is invoked if and only if the
\* captured time is in the minute 07:00 and the debounced sample is wet.
C3_PlugIffTriggerAndWet ==
    /\ obs.plug # "none" =>
         obs.sampled /\ InTriggerMinute(current_time) /\ current_state
    /\ pc \in PastActuate =>
         (obs.plug # "none" <=> InTriggerMinute(current_time) /\ current_state)

\* an iteration at 07:00 with a wet sample has invoked set_plug and goes on
C3_Witness ==
    pc = "evaluate" /\ obs.plug = "ok" /\ InTriggerMinute(current_time)
       /\ current_state

\* C4: in a run whose samples are all wet, at the end of an iteration whose
\* captured time is in the minute 07:00 set_plug("ON") has been invoked
\* exactly once within that minute, and an iteration at 07:01 invokes nothing.
C4_OncePerTriggerMinute ==
    /\ (hist.allWet /\ pc = "sleep" /\ InTriggerMinute(current_time))
          => hist.plugCount = 1
    /\ (pc = "sleep" /\ InNextMinute(current_time)) => obs.plug = "none"

\* C5: with a notifier, a status notification sent in an iteration without
\* a transition comes strictly more than the cooldown after the status
\* notification before it (times as captured by their iterations).
C5_UnchangedNotificationsCooldownApart ==
    (telegram /\ obs.sent # "none" /\ ~obs.first /\ ~obs.differs
        /\ hist.prevStatusAt # NoTime)
      => hist.lastStatusAt - hist.prevStatusAt > notification_cooldown

\* C6: an iteration whose sample differs from last_state logs an event and
\* sends a status notification before it ends, and sets
\* last_notification_time to its captured time (notifier configured).
C6_TransitionLoggedAndNotified ==
    (telegram /\ obs.sampled /\ obs.differs /\ pc \in {"sleep", "mon_except"})
      => /\ obs.logged # "none"
         /\ obs.sent # "none"
         /\ last_notification_time = current_time

\* C7: the first iteration that obtains a sample treats it as changed and
\* logs an event before it ends, whatever the sample and the time of day.
C7_FirstReadingLogged ==
    (obs.sampled /\ obs.first /\ pc \in {"sleep", "mon_except"})
      => state_changed /\ obs.logged # "none"

\* C8: when check_water returns after 5 reads, its result is true if and
\* only if at least 3 of the 5 reads were 1.
C8_MajorityVote ==
    pc = "actuate" =>
        /\ Len(readings) = 5
        /\ current_state <=> (Ones(readings) >= 3)

\* check_water has returned wet on exactly 3 ones, and dry on exactly 2
C8_Witness ==
    pc = "actuate" /\ Ones(readings) = 3 /\ current_state
       /\ readings[1] = 0 /\ readings[5] = 0

\* C9: a failure of set_plug, send_message or log_event in an iteration
\* never takes monitor out of its loop.
C9_RemoteFailureKeepsLoopRunning ==
    (obs.plug = "fail" \/ obs.actSent = "fail" \/ obs.sent = "fail"
        \/ obs.logged = "fail")
      => pc # "mon_except" /\ outcome # "raise"

\* C10: last_notification_time changes only in a step in which
\* send_message returned success.
C10_StampOnlyOnSuccess ==
    [][last_notification_time' # last_notification_time
          => obs'.sent = "ok"]_vars

\* C11: at the end of every iteration that reaches the sleep,
\* last_reading_time is the iteration's captured time and last_state is its
\* sample.
C11_StateUpdatedEveryIteration ==
    pc = "sleep" =>
        last_reading_time = current_time /\ last_state = current_state

C13_InterruptStopsAndReturns ==
    obs.intr = "try" =>
        /\ pc \in {"kbd", "finally", "done"}
        /\ pc = "done" =>
              /\ outcome = "return"
              /\ obs.stopSent = IF telegram THEN 1 ELSE 0

\* monitor has returned after an interrupt that arrived once the iteration
\* had logged its event, with a notifier
C13_Witness ==
    pc = "done" /\ obs.intr = "try" /\ telegram /\ obs.stopSent = 1
       /\ outcome = "return" /\ obs.logged # "none"

\* C14: an event logged in an iteration that is neither the first reading
\* nor a transition comes no sooner than the cooldown after the event logged
\* before it, with or without a notifier.
C14_LoggedOnlyOnChangeOrCooldown ==
    (obs.logged # "none" /\ ~obs.first /\ ~obs.differs
        /\ hist.prevLogAt # NoTime)
      => hist.lastLogAt - hist.prevLogAt >= notification_cooldown

\* C15: with a notifier, an iteration without a transition has
\* state_changed false, and enters the notification branch exactly when its
\* captured time is more than the cooldown after last_notification_time.
C15_NotifiesExactlyWhenCapturedPastCooldown ==
    (telegram /\ obs.sampled /\ ~obs.first /\ ~obs.differs
        /\ obs.logged = "none" /\ pc \in {"log", "sleep"})
      => /\ ~state_changed
         /\ pc = "log" <=>
              current_time - last_notification_time > notification_cooldown

\* C16: the annotation of a logged event is the time since the event logged
\* before it, and zero on the first reading; on the cooldown path with a
\* notifier it is the cooldown or more, up to the sampling latency.
C16_ElapsedAnnotation ==
    obs.logged # "none" =>
        /\ IF obs.first THEN obs.note = 0
           ELSE obs.note = hist.lastLogAt - hist.prevLogAt
        /\ (telegram /\ ~obs.first /\ ~obs.differs) =>
              obs.note + MaxLatency > notification_cooldown

\* an event logged on the cooldown path after an iteration that logged
\* nothing: its annotation spans more than one check interval
C16_Witness ==
    pc = "sleep" /\ telegram /\ obs.logged # "none" /\ ~obs.first
       /\ ~obs.differs /\ obs.note > check_interval + MaxLatency

\* C17: with a notifier, an iteration in which set_plug("ON") succeeded
\* sends the actuation notification and goes on.
C17_ActuationNotified ==
    (telegram /\ obs.plug = "ok" /\ pc # "actuate_notify" /\ obs.intr = "none")
      => obs.actSent \in {"ok", "fail"} /\ pc # "mon_except"

\* C18: a run with check_interval = 120 whose first iteration is captured at
\* 06:59:59 has no iteration captured in the minute 07:00 and never invokes
\* set_plug, whatever the sensor reads.
C18_TriggerMinuteSkipped ==
    (check_interval = MainInterval
        /\ hist.firstCaptured = TriggerHour * 3600 - 1)
      => hist.plugCount = 0 /\ ~InTriggerMinute(current_time)

\* such a run with the sensor wet throughout, past the minute 07:00
C18_Witness ==
    check_interval = MainInterval /\ hist.firstCaptured = TriggerHour * 3600 - 1
       /\ iter >= 2 /\ pc = "sleep" /\ hist.allWet /\ current_state
       /\ current_time >= TriggerHour * 3600 + 60 /\ hist.plugCount = 0

\* C19: at the start of every iteration after the first, last_state is the
\* sample of the iteration before, and state_changed is true exactly when
\* the two consecutive samples differ.
C19_LastStateTracksPreviousSample ==
    /\ (pc = "loop" /\ hist.prevDone) => last_state = hist.prevSample
    /\ (pc \in {"decide", "log", "notify", "commit", "sleep"} /\ ~obs.first)
          => (state_changed <=> current_state # hist.prevSample)

\* an iteration that skipped the log/notify branch has ended and last_state
\* is still the (wet) sample
C19_Witness ==
    pc = "loop" /\ hist.prevDone /\ obs.sampled /\ ~obs.first
       /\ obs.logged = "none" /\ last_state /\ hist.prevSample

\* C20: the actuation step leaves last_state, last_reading_time and
\* last_notification_time as they were, and an iteration that sent the
\* actuation notification still reports its transition.
C20_ActuationLeavesStateAlone ==
    /\ (obs.plug # "none" /\ pc \in {"actuate_notify", "evaluate", "mon_except"})
          => <<last_state, last_reading_time, last_notification_time>> = obs.det0
    /\ (telegram /\ obs.actSent \in {"ok", "fail"} /\ obs.differs /\ pc = "sleep")
          => obs.logged # "none" /\ obs.sent # "none"

\* a dry-to-wet transition at 07:00 whose actuation notification was sent,
\* with an earlier status notification on record
C20_Witness ==
    pc = "evaluate" /\ obs.actSent = "ok" /\ obs.differs
       /\ last_notification_time # NoTime

====
